---- MODULE Spec2Model ----
(***************************************************************************)
(* Model of the scan runner of caido-community/scanner:                    *)
(*   createRunnable / getCheckBatches   (engine runner, src/unnamed/part_009 *)
(*                                       lines 275-816)                    *)
(*   createTaskExecutor                 (engine/src/core/execution.ts)     *)
(*                                                                         *)
(* Granularity.  JavaScript runs one macrotask at a time; a chain of       *)
(* promise continuations (microtasks) that follows the completion of an    *)
(* awaited host operation runs without any other macrotask in between.     *)
(* One action of this model is one such chain: it starts when an awaited   *)
(* host operation (sdk.requests.get, task.tick()) or a timer completes, or *)
(* when an API method of the runnable is called, and runs every            *)
(* continuation up to the next awaits.                                     *)
(*                                                                         *)
(* The two PromisePool instances are the library @supercharge/promise-pool.*)
(* Its behaviour as used here: items are started in order while fewer than *)
(* `concurrency` tasks are active and the pool is not stopped; the handler *)
(* of an item runs synchronously up to its first await, then the           *)
(* onTaskStarted handlers run; an error of a handler is given to           *)
(* handleError; pool.stop() marks the pool stopped and the error is        *)
(* dropped; an error rethrown by handleError rejects process(); without a  *)
(* rethrow process() resolves with errors = [] once the active tasks have  *)
(* settled; onTaskFinished runs after a task settled, either way.          *)
(* withTaskTimeout(ms) races the handler of every task with a timer: when  *)
(* the timer wins, the task fails with a PromisePoolError, which goes to   *)
(* handleError like an error of the handler, and the handler itself keeps  *)
(* running, its outcome ignored by the pool.  A task whose error           *)
(* handleError rethrew rejects process() at once; the tasks in flight keep *)
(* running and no further item is started.                                 *)
(***************************************************************************)
EXTENDS Integers, Sequences, FiniteSets, TLC

None == "none"

\* an absent CheckOutput (Map.get of a missing key)
undefined == <<>>

\* a promise that has not resolved
NoResult == [kind |-> None]

\* no entry in activeCheckRecords
NoRecord == [active |-> FALSE, steps |-> <<>>]

(***************************************************************************)
(* Bounds of the model.                                                    *)
(***************************************************************************)
MaxTargets == 2

(***************************************************************************)
(* The registered checks (CheckDefinition[]), in registration order.       *)
(*   C  active, no dedupeKey; its first step awaits the host; on r1 it     *)
(*      continues with one finding to a second, synchronous step that is   *)
(*      done; on the other requests the first step is done                 *)
(*   A  passive, dedupeKey, skipIfFoundBy referring to C, one synchronous  *)
(*      step: done with one finding                                        *)
(*   B  passive, dependsOn A, dedupeKey, a `when` that is false of r2,     *)
(*      reads runtime.dependencies.get("A"), one synchronous step: done    *)
(* A synchronous step returns within the chain of continuations that       *)
(* called it; a step that awaits the host returns in a later action.       *)
(***************************************************************************)
checks == <<"C", "A", "B">>

CheckIds == {checks[n] : n \in 1..Len(checks)}

dependsOn(c) == IF c = "B" THEN {"A"} ELSE {}

hasDedupeKey(c) == c \in {"A", "B"}

\* metadata.skipIfFoundBy: the check id it refers to, or None when unset
skipIfFoundBy(c) == IF c = "A" THEN "C" ELSE None

severities(c) == IF c = "A" THEN {"high"} ELSE {"info", "low"}

hasMinAggressivity(c) == c = "C"

minAggressivity(c) == 0

hasWhen(c) == c \in {"C", "B"}

\* the steps of a check: what task.tick() returns at step k when it does not throw
StepResult(c, r, k) ==
    IF c = "C" /\ k = 1 /\ r = "r1" THEN [status |-> "continue", findings |-> 1]
    ELSE IF c = "A" THEN [status |-> "done", findings |-> 1]
    ELSE [status |-> "done", findings |-> 0]

\* the steps that await the host (sdk.requests.send, html.parse)
isAsync(c, k) == c = "C" /\ k = 1

\* the steps of a registry in which the second step of C awaits the host too
isAsyncTwice(c, k) == c = "C"

\* the steps of the checks, as pairs <<check, step>>
Steps == CheckIds \X {1, 2}

\* the steps whose task.tick() may throw an error (not an interruption)
MayThrow(c, k) == c = "A" \/ (c = "C" /\ k = 2)

Throwers == {"A", "C"}

\* what a throwing step throws: A a ScanRunnableError (html.parse of a
\* request the host does not know), C an Error that is none
StepError(c) ==
    IF c = "A" THEN [isScanRunnableError |-> TRUE, code |-> "REQUEST_NOT_FOUND"]
    ELSE [isScanRunnableError |-> FALSE, code |-> "none"]

(***************************************************************************)
(* The requests the host knows (sdk.requests.get).  r1 and r2 share host,  *)
(* port and path; r3 differs.                                              *)
(***************************************************************************)
Requests == {"r1", "r2", "r3"}

dedupeKey(c, r) == IF r = "r3" THEN "k2" ELSE "k1"

Keys == {dedupeKey("A", r) : r \in Requests}

when(c, r) == IF c = "B" THEN r # "r2" ELSE r # "r3"

\* task.getOutput() of a completed execution of check c on request r
getOutput(c, r) == <<c, r>>

InterruptReasons == {"Cancelled", "Timeout"}

\* a request ID for which sdk.requests.get returns undefined
UnknownRequests == {"r9"}

RequestLists ==
    UNION {[1..n -> Requests \cup UnknownRequests] : n \in 0..MaxTargets}

Configs ==
    [concurrentTargets : {1, 2}, concurrentChecks : {1, 2},
     scanTimeout : {0, 1}, checkTimeout : {1},
     severities : {{"info", "high"}, {}}, aggressivity : {1}]

VARIABLES
    requestIDs,          \* the argument of run()
    config,              \* ScanConfig
    hasRun,
    interruptReason,
    dedupeKeys,          \* Map<checkId, Set<key>>
    findings,            \* Map<checkId, Finding[]>: keys in insertion order, vals
    dependencies,        \* Map<checkId, CheckOutput>
    executionHistory,
    activeCheckRecords,  \* Map<"checkId-targetRequestId", {steps}>
    events,              \* every event emitted on the mitt bus, in order
    targetPool,          \* PromisePool.for(requestIDs): next item, stopped
    targets,             \* per item of requestIDs: where processTarget is
    scanResult,          \* what runScan() returned, or none
    runResult,           \* what the promise of the first run() resolved to
    rerunResult,         \* what a later run() returned, or none
    timer,               \* the scan timeout timer: "off", "armed", "fired"
    cancelPromise,       \* the promise of an effective cancel(): none/waiting/resolved
    created,             \* check.create() calls: <<checkId, item index>>
    gets,                \* dependencies.get calls of checks, with what had completed
    outputs,             \* per check: the outputs its executions completed with
    interruptedAt,       \* Len(events) when interruptReason was set, or -1
    registry,            \* the checks given to createRunnable
    plan,                \* what getCheckBatches returned or threw
    dedupeResult,        \* how the last externalDedupeKeys() call ended
    installed,           \* the map of the last externalDedupeKeys() accepted
    estimating,          \* the estimate() call in progress
    estimates,           \* the estimate() calls that returned: index, result
    requestEvents,       \* the scan:request-* events emitted, and the enqueue calls
    requestQueue,        \* the requests given to the request queue, not completed
    htmlCache,           \* Map<requestID, ParsedHtml>: the object cached, 0 if none
    htmlCalls            \* the html.parse calls of the checks

vars == <<requestIDs, config, hasRun, interruptReason, dedupeKeys, findings,
          dependencies, executionHistory, activeCheckRecords, events,
          targetPool, targets, scanResult, runResult, rerunResult, timer,
          cancelPromise, created, gets, outputs, interruptedAt, registry,
          plan, dedupeResult, installed, estimating, estimates,
          requestEvents, requestQueue, htmlCache, htmlCalls>>


(***************************************************************************)
(* getCheckBatches(checks).  A registry is the list of the ids of the      *)
(* checks, in registration order, and the dependsOn of each.  dag[d] lists *)
(* the checks that depend on d.  batchingToposort (batching-toposort-ts)   *)
(* counts the in-degrees, takes the vertices of in-degree 0 as the first   *)
(* batch, and builds each next batch from the dependents whose in-degree   *)
(* reaches 0 when the edges of the batch are removed; vertices left with   *)
(* in-degree > 0 are a cycle.                                              *)
(***************************************************************************)
Range(q) == {q[n] : n \in 1..Len(q)}

\* a plain Error: it carries a message and no error code
PlanError(message) ==
    [kind |-> "Error", name |-> "Error", code |-> None, message |-> message,
     batches |-> <<>>, dag |-> <<>>]

countInDegreesZero(ids, dag) == [v \in Range(ids) |-> 0]

countInDegrees(ids, dag) ==
    [v \in Range(ids) |->
        Cardinality({d \in Range(ids) : v \in Range(dag[d])})]

getRoots(ids, indegrees) == SelectSeq(ids, LAMBDA v : indegrees[v] = 0)

\* roots.forEach(root => dag[root].forEach(dependent => ...)): the dependents
\* in the order they are visited
RECURSIVE dependentsOf(_, _)
dependentsOf(roots, dag) ==
    IF roots = <<>> THEN <<>>
    ELSE dag[Head(roots)] \o dependentsOf(Tail(roots), dag)

\* indegrees[dependent]--; if (indegrees[dependent] === 0) newRoots.push(dependent)
RECURSIVE removeEdges(_, _, _)
removeEdges(ds, indegrees, newRoots) ==
    IF ds = <<>> THEN [indegrees |-> indegrees, roots |-> newRoots]
    ELSE LET n == indegrees[Head(ds)] - 1
         IN  removeEdges(Tail(ds), [indegrees EXCEPT ![Head(ds)] = n],
                         IF n = 0 THEN Append(newRoots, Head(ds))
                         ELSE newRoots)

RECURSIVE toposortLoop(_, _, _, _)
toposortLoop(roots, dag, indegrees, sorted) ==
    IF roots = <<>>
    THEN IF \E v \in DOMAIN indegrees : indegrees[v] > 0
         THEN PlanError("Cycle(s) detected; toposort only works on acyclic graphs")
         ELSE [kind |-> "Batches", name |-> None, code |-> None,
               message |-> None, batches |-> sorted, dag |-> dag]
    ELSE LET e == removeEdges(dependentsOf(roots, dag), indegrees, <<>>)
         IN  toposortLoop(e.roots, dag, e.indegrees, Append(sorted, roots))

batchingToposort(ids, dag) ==
    LET indegrees == countInDegrees(ids, dag)
    IN  toposortLoop(getRoots(ids, indegrees), dag, indegrees, <<>>)

\* getCheckBatches that does not look for unknown dependencies
getCheckBatchesUnchecked(ids, deps) ==
    batchingToposort(ids,
        [d \in Range(ids) |-> SelectSeq(ids, LAMBDA c : d \in deps[c])])

\* getCheckBatches without the two tests of checkMap: a dependency that is
\* not registered gets a vertex of the dag
getCheckBatchesWithStubs(ids, deps) ==
    LET all == ids \o SelectSeq(<<"A", "B", "C", "X">>,
                          LAMBDA v : /\ v \notin Range(ids)
                                     /\ \E c \in Range(ids) : v \in deps[c])
    IN  batchingToposort(all,
            [d \in Range(all) |-> SelectSeq(ids, LAMBDA c : d \in deps[c])])

\* the checks and their dependsOn, as registered
getCheckBatches(ids, deps) ==
    IF \E c \in Range(ids) : ~(deps[c] \subseteq Range(ids))
    THEN PlanError("Check has unknown dependency")
    ELSE batchingToposort(ids,
             [d \in Range(ids) |-> SelectSeq(ids, LAMBDA c : d \in deps[c])])

batches == getCheckBatches(checks, [c \in CheckIds |-> dependsOn(c)]).batches

\* the registries of the planner: up to three checks, each depending on
\* any of the checks and of an id that is not registered
PlanIds == {<<"A">>, <<"A", "B">>, <<"B", "A", "C">>}

Registries ==
    UNION {[ids : {ids}, deps : [Range(ids) -> SUBSET {"A", "B", "C", "X"}],
            awaits : {{}}] :
               ids \in PlanIds}

\* createRunnable has not been called
NoPlan ==
    [kind |-> None, name |-> None, code |-> None, message |-> None,
     batches |-> <<>>, dag |-> <<>>]

(***************************************************************************)
(* The state of the runnable as one record, so that the helpers of the     *)
(* runner can be written as functions from state to state.                 *)
(***************************************************************************)
State(throwing) ==
    [throwing |-> throwing,      \* the checks whose step throws in this action
     random |-> None,            \* what Math.random() gives in this action
     requestEvents |-> requestEvents, requestQueue |-> requestQueue,
     htmlCache |-> htmlCache, htmlCalls |-> htmlCalls,
     requestIDs |-> requestIDs, config |-> config, hasRun |-> hasRun,
     interruptReason |-> interruptReason, dedupeKeys |-> dedupeKeys,
     findings |-> findings, dependencies |-> dependencies,
     executionHistory |-> executionHistory,
     activeCheckRecords |-> activeCheckRecords, events |-> events,
     targetPool |-> targetPool, targets |-> targets,
     scanResult |-> scanResult, runResult |-> runResult,
     rerunResult |-> rerunResult, timer |-> timer,
     cancelPromise |-> cancelPromise, created |-> created, gets |-> gets,
     outputs |-> outputs,
     interruptedAt |-> interruptedAt, registry |-> registry, plan |-> plan,
     dedupeResult |-> dedupeResult, installed |-> installed,
     estimating |-> estimating, estimates |-> estimates]

\* the next state is v (evaluated once)
Becomes(s) ==
    \E v \in {s} :
        /\ requestIDs' = v.requestIDs
        /\ config' = v.config
        /\ hasRun' = v.hasRun
        /\ interruptReason' = v.interruptReason
        /\ dedupeKeys' = v.dedupeKeys
        /\ findings' = v.findings
        /\ dependencies' = v.dependencies
        /\ executionHistory' = v.executionHistory
        /\ activeCheckRecords' = v.activeCheckRecords
        /\ events' = v.events
        /\ targetPool' = v.targetPool
        /\ targets' = v.targets
        /\ scanResult' = v.scanResult
        /\ runResult' = v.runResult
        /\ rerunResult' = v.rerunResult
        /\ timer' = v.timer
        /\ cancelPromise' = v.cancelPromise
        /\ created' = v.created
        /\ gets' = v.gets
        /\ outputs' = v.outputs
        /\ interruptedAt' = v.interruptedAt
        /\ registry' = v.registry
        /\ plan' = v.plan
        /\ dedupeResult' = v.dedupeResult
        /\ installed' = v.installed
        /\ estimating' = v.estimating
        /\ estimates' = v.estimates
        /\ requestEvents' = v.requestEvents
        /\ requestQueue' = v.requestQueue
        /\ htmlCache' = v.htmlCache
        /\ htmlCalls' = v.htmlCalls

\* a task of the check pool of one target
\* skipped: what the test of skipIfFoundBy decided (None: not made);
\* refFound: whether findings existed under the id skipIfFoundBy refers to
\* when the test was made
IdleTask ==
    [st |-> "idle", step |-> 0, all |-> <<>>, timedOut |-> FALSE,
     skipped |-> None, refFound |-> FALSE]

\* processTarget of one item of requestIDs, and the check pool of its batch
NotRun ==
    [st |-> "notrun", batch |-> 0, tasks |-> <<>>, next |-> 1,
     stopped |-> FALSE, rejected |-> FALSE,
     cs |-> [c \in CheckIds |-> IdleTask]]

\* no estimate() call is in progress
NoEstimate ==
    [st |-> "idle", pos |-> 0, checksTotal |-> 0,
     snapshot |-> [c \in CheckIds |-> {}], index |-> [c \in CheckIds |-> {}]]

\* the state of a runnable that createRunnable returned
Created ==
    /\ hasRun = FALSE
    /\ interruptReason = None
    /\ dedupeKeys = [c \in CheckIds |-> {}]
    /\ findings = [keys |-> <<>>, vals |-> [c \in CheckIds |-> <<>>]]
    /\ dependencies = [c \in CheckIds |-> undefined]
    /\ executionHistory = <<>>
    /\ activeCheckRecords =
           [k \in CheckIds \X (Requests \cup UnknownRequests) |-> NoRecord]
    /\ events = <<>>
    /\ targetPool = [next |-> 1, stopped |-> FALSE]
    /\ targets = [i \in 1..Len(requestIDs) |-> NotRun]
    /\ scanResult = NoResult
    /\ runResult = NoResult
    /\ rerunResult = NoResult
    /\ timer = "off"
    /\ cancelPromise = None
    /\ created = <<>>
    /\ gets = <<>>
    /\ outputs = [c \in CheckIds |-> {}]
    /\ interruptedAt = -1
    /\ dedupeResult = None
    /\ installed = [c \in CheckIds |-> {}]
    /\ estimating = NoEstimate
    /\ estimates = {}
    /\ requestEvents = <<>>
    /\ requestQueue = {}
    /\ htmlCache = [r \in Requests \cup UnknownRequests |-> 0]
    /\ htmlCalls = <<>>

\* createRunnable({sdk, checks, config}) with the checks C, A, B
Init ==
    /\ requestIDs \in RequestLists
    /\ config \in Configs
    /\ registry = [ids |-> checks, deps |-> [c \in CheckIds |-> dependsOn(c)],
                   awaits |-> {ck \in Steps : isAsync(ck[1], ck[2])}]
    /\ plan = getCheckBatches(registry.ids, registry.deps)
    /\ Created

\* whether step k of check c awaits the host
awaitsHost(s, c, k) == <<c, k>> \in s.registry.awaits

(***************************************************************************)
(* mitt: emit appends to the event log; the listener that cancel()         *)
(* registered on scan:interrupted resolves its promise.                    *)
(***************************************************************************)
emit(s, e) ==
    [s EXCEPT !.events = Append(@, e),
              !.cancelPromise =
                  IF e[1] = "scan:interrupted" /\ @ = "waiting"
                  THEN "resolved" ELSE @]

\* Array.from(findings.values()).flat()
RECURSIVE Flat(_, _)
Flat(keys, vals) ==
    IF keys = <<>> THEN <<>> ELSE vals[Head(keys)] \o Flat(Tail(keys), vals)

flatFindings(s) == Flat(s.findings.keys, s.findings.vals)

(***************************************************************************)
(* isCheckApplicable(check, context, targetDedupeKeys): the verdict and    *)
(* the dedupe index after the call (checkCache.add(key)).                  *)
(***************************************************************************)
\* isCheckApplicable that adds the key without testing checkCache.has(key)
isCheckApplicableNoHas(check, r, cfg, keys) ==
    IF severities(check) \cap cfg.severities = {}
    THEN [ok |-> FALSE, keys |-> keys]
    ELSE IF hasMinAggressivity(check)
            /\ minAggressivity(check) > cfg.aggressivity
    THEN [ok |-> FALSE, keys |-> keys]
    ELSE IF hasWhen(check) /\ ~when(check, r)
    THEN [ok |-> FALSE, keys |-> keys]
    ELSE IF hasDedupeKey(check)
    THEN [ok |-> TRUE,
          keys |-> [keys EXCEPT ![check] = @ \cup {dedupeKey(check, r)}]]
    ELSE [ok |-> TRUE, keys |-> keys]

\* isCheckApplicable without the test of the severities
isCheckApplicableAnySeverity(check, r, cfg, keys) ==
    IF hasMinAggressivity(check)
       /\ minAggressivity(check) > cfg.aggressivity
    THEN [ok |-> FALSE, keys |-> keys]
    ELSE IF hasWhen(check) /\ ~when(check, r)
    THEN [ok |-> FALSE, keys |-> keys]
    ELSE IF hasDedupeKey(check)
    THEN IF dedupeKey(check, r) \in keys[check]
         THEN [ok |-> FALSE, keys |-> keys]
         ELSE [ok |-> TRUE,
               keys |-> [keys EXCEPT ![check] = @ \cup {dedupeKey(check, r)}]]
    ELSE [ok |-> TRUE, keys |-> keys]

\* isCheckApplicable that tests and adds the dedupe key before check.when
isCheckApplicableKeyBeforeWhen(check, r, cfg, keys) ==
    IF severities(check) \cap cfg.severities = {}
    THEN [ok |-> FALSE, keys |-> keys]
    ELSE IF hasMinAggressivity(check)
            /\ minAggressivity(check) > cfg.aggressivity
    THEN [ok |-> FALSE, keys |-> keys]
    ELSE IF hasDedupeKey(check) /\ dedupeKey(check, r) \in keys[check]
    THEN [ok |-> FALSE, keys |-> keys]
    ELSE [ok |-> ~(hasWhen(check) /\ ~when(check, r)),
          keys |-> IF hasDedupeKey(check)
                   THEN [keys EXCEPT ![check] = @ \cup {dedupeKey(check, r)}]
                   ELSE keys]

isCheckApplicable(check, r, cfg, keys) ==
    IF severities(check) \cap cfg.severities = {}
    THEN [ok |-> FALSE, keys |-> keys]
    ELSE IF hasMinAggressivity(check)
            /\ minAggressivity(check) > cfg.aggressivity
    THEN [ok |-> FALSE, keys |-> keys]
    ELSE IF hasWhen(check) /\ ~when(check, r)
    THEN [ok |-> FALSE, keys |-> keys]
    ELSE IF hasDedupeKey(check)
    THEN IF dedupeKey(check, r) \in keys[check]
         THEN [ok |-> FALSE, keys |-> keys]
         ELSE [ok |-> TRUE,
               keys |-> [keys EXCEPT ![check] = @ \cup {dedupeKey(check, r)}]]
    ELSE [ok |-> TRUE, keys |-> keys]

\* batch.filter((check) => isCheckApplicable(check, context)), in batch order
RECURSIVE filterBatch(_, _, _, _)
filterBatch(batch, r, cfg, keys) ==
    IF batch = <<>> THEN [tasks |-> <<>>, keys |-> keys]
    ELSE LET a == isCheckApplicable(Head(batch), r, cfg, keys)
             rest == filterBatch(Tail(batch), r, cfg, a.keys)
         IN  [tasks |-> IF a.ok THEN <<Head(batch)>> \o rest.tasks
                        ELSE rest.tasks,
              keys |-> rest.keys]


(***************************************************************************)
(* Errors.                                                                 *)
(***************************************************************************)
NoError == [name |-> None, reason |-> None, message |-> None]

ScanRunnableInterruptedError(reason) ==
    [name |-> "ScanRunnableInterruptedError", reason |-> reason,
     message |-> "Scan was interrupted"]

ScanRunnableError(code) ==
    [name |-> "ScanRunnableError", reason |-> None, message |-> code]

\* the error of a task of a pool whose timer won the race
PromisePoolError ==
    [name |-> "PromisePoolError", reason |-> None,
     message |-> "Task in promise pool timed out"]

(***************************************************************************)
(* runScan: its return, its catch and its finally.                         *)
(***************************************************************************)
runScanSettle(s, result) ==
    LET s1 == emit(s, <<"scan:finished">>)
    IN  [s1 EXCEPT !.scanResult = result,
                   \* run() returns runScan(), or races it with the timeout
                   !.runResult = IF @ = NoResult THEN result ELSE @]

\* a catch that takes every error for an interruption
runScanCatchAsInterrupted(s, error) ==
    runScanSettle(emit(s, <<"scan:interrupted", error.reason>>),
                  [kind |-> "Interrupted", reason |-> error.reason,
                   findings |-> flatFindings(s)])

runScanCatch(s, error) ==
    IF error.name = "ScanRunnableInterruptedError"
    THEN runScanSettle(emit(s, <<"scan:interrupted", error.reason>>),
                       [kind |-> "Interrupted", reason |-> error.reason,
                        findings |-> flatFindings(s)])
    ELSE runScanSettle(s, [kind |-> "Error", error |-> error.message])

\* PromisePool.for(requestIDs) resolved; its errors are empty, because
\* handleError is set
runScanReturn(s) ==
    runScanSettle(s, [kind |-> "Finished", findings |-> flatFindings(s)])

(***************************************************************************)
(* PromisePool.for(requestIDs).withConcurrency(concurrentTargets)          *)
(*     .handleError(...).process(processTarget)                            *)
(***************************************************************************)
activeTargets(s) ==
    {i \in 1..Len(s.requestIDs) : s.targets[i].st \in {"get", "batch"}}

\* a target pool that starts every item at once
RECURSIVE runTargetPoolUnbounded(_)
runTargetPoolUnbounded(s) ==
    IF s.scanResult # NoResult THEN s
    ELSE IF /\ ~s.targetPool.stopped
            /\ s.targetPool.next <= Len(s.requestIDs)
    THEN runTargetPoolUnbounded([s EXCEPT !.targetPool.next = @ + 1,
                                          !.targets[s.targetPool.next].st = "get"])
    ELSE IF /\ activeTargets(s) = {}
            /\ s.targetPool.stopped \/ s.targetPool.next > Len(s.requestIDs)
    THEN runScanReturn(s)
    ELSE s

RECURSIVE runTargetPool(_)
runTargetPool(s) ==
    IF s.scanResult # NoResult THEN s
    ELSE IF /\ ~s.targetPool.stopped
            /\ s.targetPool.next <= Len(s.requestIDs)
            /\ Cardinality(activeTargets(s)) < s.config.concurrentTargets
    THEN \* processTarget(requestID) runs up to await sdk.requests.get
         runTargetPool([s EXCEPT !.targetPool.next = @ + 1,
                                 !.targets[s.targetPool.next].st = "get"])
    ELSE IF /\ activeTargets(s) = {}
            /\ s.targetPool.stopped \/ s.targetPool.next > Len(s.requestIDs)
    THEN runScanReturn(s)
    ELSE s

\* processTarget of item i returned (error = NoError) or threw
targetSettled(s, i, error) ==
    LET s1 == [s EXCEPT !.targets[i].st = "done"]
    IN  IF error.name = None THEN runTargetPool(s1)
        ELSE IF error.name = "ScanRunnableInterruptedError"
        THEN \* handleError: pool.stop(); the error is dropped
             runTargetPool([s1 EXCEPT !.targetPool.stopped = TRUE])
        ELSE \* handleError rethrows: process() rejects into runScan's catch
             IF s1.scanResult = NoResult THEN runScanCatch(s1, error) ELSE s1

(***************************************************************************)
(* The handlers of the check pool of processBatch.                         *)
(***************************************************************************)
onTaskStarted(s, i, c) ==
    LET r == s.requestIDs[i]
    IN  emit([s EXCEPT !.activeCheckRecords[<<c, r>>] =
                           [active |-> TRUE, steps |-> <<>>]],
             <<"scan:check-started", c, r>>)

onTaskFinished(s, i, c) ==
    emit(s, <<"scan:check-finished", c, s.requestIDs[i]>>)

\* a pool that does not run onTaskFinished for a task that was interrupted
handleInterruptedNoFinish(s, i, c) == [s EXCEPT !.targets[i].stopped = TRUE]

\* handleError of the check pool for a ScanRunnableInterruptedError
handleInterrupted(s, i, c) ==
    onTaskFinished([s EXCEPT !.targets[i].stopped = TRUE], i, c)

\* the promise of the process handler of a task settled, with a result
\* (error = NoError) or with an interruption: the then / catch / finally of
\* the pool, unless the timer of the task had won the race
handlerSettled(s, i, c, error) ==
    LET s1 == [s EXCEPT !.targets[i].cs[c].st = "settled"]
    IN  IF s.targets[i].cs[c].timedOut THEN s1
        ELSE IF error.name = "ScanRunnableInterruptedError"
        THEN handleInterrupted(s1, i, c)
        ELSE onTaskFinished(s1, i, c)

recordStepExecution(s, c, r, record) ==
    IF s.activeCheckRecords[<<c, r>>].active
    THEN [s EXCEPT !.activeCheckRecords[<<c, r>>].steps = Append(@, record)]
    ELSE s

(***************************************************************************)
(* createTaskExecutor: tick up to `await task.tick()`.  The step function  *)
(* of a check that has dependencies reads runtime.dependencies.get.        *)
(***************************************************************************)
dependenciesGet(s, d) == s.dependencies[d]

(***************************************************************************)
(* runtime.html.parse(requestID) of createRuntimeContext, called by the    *)
(* step of check c for item i.  A ParsedHtml object is the number of the   *)
(* parseHtmlFromString call that made it.                                  *)
(***************************************************************************)
parseCalls(s) ==
    {n \in 1..Len(s.htmlCalls) : s.htmlCalls[n].parsed}

\* html.parse up to `await sdk.requests.get(requestID)`
htmlParse(s, i, c, requestID) ==
    LET cachedHtml == s.htmlCache[requestID]
    IN  [s EXCEPT !.htmlCalls =
            Append(@, [item |-> i, check |-> c, requestID |-> requestID,
                       st |-> IF cachedHtml # 0 THEN "returned" ELSE "get",
                       parsed |-> FALSE, parsedHtml |-> cachedHtml])]

\* html.parse of call n after `await sdk.requests.get(requestID)`, for a
\* request that has a response with a body
htmlParsed(s, n) ==
    LET parsedHtml == Cardinality(parseCalls(s)) + 1
    IN  [s EXCEPT !.htmlCache[s.htmlCalls[n].requestID] = parsedHtml,
                  !.htmlCalls[n].st = "returned",
                  !.htmlCalls[n].parsed = TRUE,
                  !.htmlCalls[n].parsedHtml = parsedHtml]

\* the html.parse calls of check c for item i that have not returned
htmlPending(calls, i, c) ==
    {n \in 1..Len(calls) :
        calls[n].item = i /\ calls[n].check = c /\ calls[n].st = "get"}

(***************************************************************************)
(* createWrappedSdk(checkID, targetRequestID).requests.send and the        *)
(* request queue.  Of the queue (./request-queue) the runner's source has  *)
(* the call of enqueue only; enqueue and requestCompleted follow its       *)
(* contract: the request waits in the queue until the host has sent it,    *)
(* and scan:request-completed {id: pendingRequestID} is emitted on         *)
(* success.  The request events go to requestEvents, together with the     *)
(* enqueue calls; they are recorded in the actions that give Math.random a *)
(* value (SpecRequests).                                                   *)
(***************************************************************************)
\* the values of Math.random().toString(36).substring(2, 15)
PendingRequestIDs == {"p1", "p2"}

\* requestQueue.enqueue(request, pendingRequestID, targetRequestID, checkID)
enqueue(s, pendingRequestID, i, c) ==
    [s EXCEPT !.requestEvents =
                  Append(@, <<"enqueue", pendingRequestID, c, s.requestIDs[i]>>),
              !.requestQueue =
                  @ \cup {[id |-> pendingRequestID, item |-> i, check |-> c]}]

\* the queue when the host has sent the request of check c for item i
requestCompleted(s, i, c) ==
    LET qs == {q \in s.requestQueue : q.item = i /\ q.check = c}
    IN  IF qs = {} THEN s
        ELSE LET q == CHOOSE q \in qs : TRUE
             IN  [s EXCEPT !.requestQueue = @ \ {q},
                           !.requestEvents =
                               Append(@, <<"scan:request-completed", q.id>>)]

\* send of the wrapped sdk: emit scan:request-pending, then enqueue
send(s, i, c) ==
    LET pendingRequestID == s.random
    IN  enqueue([s EXCEPT !.requestEvents =
                              Append(@, <<"scan:request-pending",
                                          pendingRequestID, c,
                                          s.requestIDs[i]>>)],
                pendingRequestID, i, c)

\* task.tick() of step k is called; a step that awaits the host sends a
\* request through the wrapped sdk
beginTick(s0, i, c, k) ==
    LET s == IF awaitsHost(s0, c, k) /\ s0.random # None THEN send(s0, i, c)
             ELSE s0
    IN
    [s EXCEPT !.targets[i].cs[c].st = "tick",
              !.targets[i].cs[c].step = k,
              !.gets = IF k = 1 /\ dependsOn(c) # {}
                       THEN LET d == CHOOSE d \in dependsOn(c) : TRUE
                            IN  Append(@, [check |-> c, item |-> i, dep |-> d,
                                           value |-> dependenciesGet(s, d),
                                           completed |-> s.outputs[d]])
                       ELSE @]

\* storeOutput that tests for a status tickUntilDone never returns
storeOutputWrongStatus(s, c, result) ==
    IF result.status = "completed"
    THEN [s EXCEPT !.dependencies[c] = result.output] ELSE s

\* if (result.status === "done") dependencies.set(task.metadata.id, result.output)
storeOutput(s, c, result) ==
    IF result.status = "done"
    THEN [s EXCEPT !.dependencies[c] = result.output] ELSE s

\* the process handler after `await taskExecutor.tickUntilDone(task)`
processReturn(s, i, c, result) ==
    LET r == s.requestIDs[i]
        key == <<c, r>>
        rec == s.activeCheckRecords[key]
        fkeys == IF c \in Range(s.findings.keys) THEN s.findings.keys
                 ELSE Append(s.findings.keys, c)
        s1 == [s EXCEPT !.findings =
                   [keys |-> fkeys,
                    vals |-> [s.findings.vals EXCEPT
                                 ![c] = @ \o result.findings]]]
        record == [checkId |-> c, targetRequestId |-> r, steps |-> rec.steps,
                   status |-> IF result.status = "done" THEN "completed"
                              ELSE "failed",
                   finalOutput |-> result.output,
                   error |-> result.errorCode]
        s2 == storeOutput(s1, c, result)
        s3 == IF rec.active
              THEN [s2 EXCEPT !.executionHistory = Append(@, record),
                              !.activeCheckRecords[key] = NoRecord]
              ELSE s2
        s4 == IF result.status = "failed"
              THEN emit(s3, <<"scan:check-failed", c, r, result.errorCode>>)
              ELSE s3
    IN  handlerSettled(s4, i, c, NoError)

findingEvents(s) ==
    {n \in 1..Len(s.events) : s.events[n][1] = "scan:finding"}

RECURSIVE emitFindings(_, _)
emitFindings(s, fs) ==
    IF fs = <<>> THEN s
    ELSE emitFindings(emit(s, <<"scan:finding", Head(fs)>>), Tail(fs))

\* tick after `await task.tick()`, and tickUntilDone up to the next await
endTick(s0, i, c) ==
    LET s == requestCompleted(s0, i, c)
        r == s.requestIDs[i]
        t == s.targets[i].cs[c]
    IN  IF c \in s.throwing /\ MayThrow(c, t.step)
        THEN processReturn(s, i, c,
                 [status |-> "failed", findings |-> t.all,
                  output |-> undefined,
                  errorCode |-> IF StepError(c).isScanRunnableError
                                THEN StepError(c).code
                                ELSE "UNKNOWN_CHECK_ERROR"])
        ELSE
        LET res == StepResult(c, r, t.step)
            base == Cardinality(findingEvents(s))
            fs == [n \in 1..res.findings |-> <<base + n, c, r>>]
            s1 == recordStepExecution(emitFindings(s, fs), c, r,
                      [findings |-> fs, result |-> res.status])
            s2 == [s1 EXCEPT !.targets[i].cs[c].all = @ \o fs]
        IN  IF res.status = "continue"
            THEN IF s2.interruptReason # None
                 THEN handlerSettled(s2, i, c,
                          ScanRunnableInterruptedError(s2.interruptReason))
                 ELSE beginTick(s2, i, c, t.step + 1)
            ELSE processReturn(
                     [s2 EXCEPT !.outputs[c] = @ \cup {getOutput(c, r)}], i, c,
                     [status |-> "done", findings |-> s2.targets[i].cs[c].all,
                      output |-> getOutput(c, r), errorCode |-> None])

\* the queue fails the send of check c for item i, which had not started
\* when interruptReason was set, with the interruption (contract of the
\* queue); no scan:request-completed is emitted
requestInterrupted(s, i, c) ==
    [s EXCEPT !.requestQueue =
                  {q \in @ : ~(q.item = i /\ q.check = c)}]

\* the codes that the catch of tick can give to an interruption thrown by
\* task.tick(): that of a ScanRunnableError, if the interruption is one, or
\* UNKNOWN_CHECK_ERROR
InterruptedCodes == {"INTERRUPTED", "UNKNOWN_CHECK_ERROR"}

\* tick when `await task.tick()` throws the interruption of the send: the
\* catch of tick returns failed
sendInterrupted(s, i, c, code) ==
    processReturn(requestInterrupted(s, i, c), i, c,
        [status |-> "failed", findings |-> s.targets[i].cs[c].all,
         output |-> undefined, errorCode |-> code])

\* tickUntilDone, up to the next step that awaits the host
RECURSIVE tickUntilDone(_, _, _)
tickUntilDone(s, i, c) ==
    LET t == s.targets[i].cs[c]
    IN  IF t.st = "tick" /\ ~awaitsHost(s, c, t.step)
        THEN tickUntilDone(endTick(s, i, c), i, c)
        ELSE s

\* startProcessing(item) of the check pool: the process handler up to its
\* first await, then onTaskStarted
\* const existingFindings = findings.get(task.metadata.id) || [];
\* existingFindings.length > 0
existingFindings(s, c) == Len(s.findings.vals[c]) > 0

\* the same test of the findings of the check that skipIfFoundBy refers to
existingFindingsOfReferenced(s, c) == Len(s.findings.vals[skipIfFoundBy(c)]) > 0

\* startProcessing whose first tick does not test getInterruptReason()
startProcessingNoInterruptTest(s, i, c) ==
    LET skip == skipIfFoundBy(c) # None /\ existingFindings(s, c)
        s0 == IF skipIfFoundBy(c) = None THEN s
              ELSE [s EXCEPT !.targets[i].cs[c].skipped =
                                 IF skip THEN "yes" ELSE "no",
                             !.targets[i].cs[c].refFound =
                                 existingFindingsOfReferenced(s, c)]
    IN  IF skip
        THEN handlerSettled(onTaskStarted(s0, i, c), i, c, NoError)
        ELSE tickUntilDone(onTaskStarted(beginTick(s0, i, c, 1), i, c), i, c)

startProcessing(s, i, c) ==
    LET skip == skipIfFoundBy(c) # None /\ existingFindings(s, c)
        s0 == IF skipIfFoundBy(c) = None THEN s
              ELSE [s EXCEPT !.targets[i].cs[c].skipped =
                                 IF skip THEN "yes" ELSE "no",
                             !.targets[i].cs[c].refFound =
                                 existingFindingsOfReferenced(s, c)]
    IN  IF skip
        THEN handlerSettled(onTaskStarted(s0, i, c), i, c, NoError)
        ELSE IF s.interruptReason # None
        THEN handlerSettled(onTaskStarted(s0, i, c), i, c,
                            ScanRunnableInterruptedError(s.interruptReason))
        ELSE tickUntilDone(onTaskStarted(beginTick(s0, i, c, 1), i, c), i, c)

(***************************************************************************)
(* PromisePool.for(tasks).withConcurrency(concurrentChecks)...process(...) *)
(***************************************************************************)
RECURSIVE runCheckPool(_, _)
RECURSIVE processBatches(_, _, _)

activeTasks(t) == {c \in CheckIds : t.cs[c].st = "tick" /\ ~t.cs[c].timedOut}

\* a check pool whose process() resolves when every task has been started
runCheckPoolNoDrain(s, i) ==
    LET t == s.targets[i]
    IN  IF t.rejected THEN s
        ELSE IF /\ ~t.stopped
           /\ t.next <= Len(t.tasks)
           /\ Cardinality(activeTasks(t)) < s.config.concurrentChecks
        THEN runCheckPool(
                 startProcessing([s EXCEPT !.targets[i].next = @ + 1], i,
                                 t.tasks[t.next]), i)
        ELSE IF t.stopped \/ t.next > Len(t.tasks)
        THEN processBatches(s, i, t.batch + 1)
        ELSE s

runCheckPool(s, i) ==
    LET t == s.targets[i]
    IN  IF t.rejected THEN s
        ELSE IF /\ ~t.stopped
           /\ t.next <= Len(t.tasks)
           /\ Cardinality(activeTasks(t)) < s.config.concurrentChecks
        THEN runCheckPool(
                 startProcessing([s EXCEPT !.targets[i].next = @ + 1], i,
                                 t.tasks[t.next]), i)
        ELSE IF activeTasks(t) = {} /\ (t.stopped \/ t.next > Len(t.tasks))
        THEN \* errors is empty: processBatch returns
             processBatches(s, i, t.batch + 1)
        ELSE s

processBatch(s, i, b) ==
    LET r == s.requestIDs[i]
        f == filterBatch(batches[b], r, s.config, s.dedupeKeys)
        s1 == [s EXCEPT
                 !.dedupeKeys = f.keys,
                 !.created = @ \o [n \in 1..Len(f.tasks) |-> <<f.tasks[n], i>>],
                 !.targets[i] = [NotRun EXCEPT !.st = "batch", !.batch = b,
                                               !.tasks = f.tasks]]
    IN  runCheckPool(s1, i)

\* the loop `for (const batch of batches)` of processTarget, from batch b
processBatches(s, i, b) ==
    IF b > Len(batches) THEN targetSettled(s, i, NoError)
    ELSE IF s.interruptReason # None
    THEN targetSettled(s, i, ScanRunnableInterruptedError(s.interruptReason))
    ELSE processBatch(s, i, b)

\* processTarget after `await sdk.requests.get(requestID)`
processTarget(s, i) ==
    IF s.requestIDs[i] \notin Requests
    THEN targetSettled(s, i, ScanRunnableError("REQUEST_NOT_FOUND"))
    ELSE processBatches(s, i, 1)

(***************************************************************************)
(* The API of the runnable.                                                *)
(***************************************************************************)
runScan(s) ==
    runTargetPool(emit([s EXCEPT !.hasRun = TRUE], <<"scan:started">>))

\* run without the test of hasRun
runAgain(s) ==
    runScan([s EXCEPT !.timer = IF s.config.scanTimeout > 0
                                 THEN "armed" ELSE "off"])

run(s) ==
    IF s.hasRun
    THEN [s EXCEPT !.rerunResult =
                       [kind |-> "Error", error |-> "Scan is already running"]]
    ELSE runScan([s EXCEPT !.timer = IF s.config.scanTimeout > 0
                                     THEN "armed" ELSE "off"])

\* a timeout callback that resolves the race and leaves interruptReason unset
scanTimeoutFiredReasonUnset(s) ==
    [s EXCEPT !.timer = "fired",
              !.runResult =
                  IF @ = NoResult
                  THEN [kind |-> "Interrupted", reason |-> "Timeout",
                        findings |-> flatFindings(s)]
                  ELSE @]

\* the callback of setTimeout(..., config.scanTimeout * 1000)
scanTimeoutFired(s) ==
    LET s1 == IF s.interruptReason = None
              THEN [s EXCEPT !.interruptReason = "Timeout",
                             !.interruptedAt = Len(s.events)]
              ELSE s
    IN  [s1 EXCEPT !.timer = "fired",
                   !.runResult =
                       IF @ = NoResult
                       THEN [kind |-> "Interrupted", reason |-> "Timeout",
                             findings |-> flatFindings(s)]
                       ELSE @]

\* cancel without the test of hasRun
cancelBeforeRun(s, reason) ==
    IF s.interruptReason # None THEN s
    ELSE [s EXCEPT !.interruptReason = reason,
                   !.interruptedAt = Len(s.events),
                   !.cancelPromise = "waiting"]

cancel(s, reason) ==
    IF s.interruptReason # None \/ ~s.hasRun THEN s
    ELSE [s EXCEPT !.interruptReason = reason,
                   !.interruptedAt = Len(s.events),
                   !.cancelPromise = "waiting"]

\* externalDedupeKeys without the test of hasRun
externalDedupeKeysAnytime(s, map) ==
    [s EXCEPT !.dedupeKeys = map, !.installed = map, !.dedupeResult = "ok"]

externalDedupeKeys(s, map) ==
    IF s.hasRun
    THEN [s EXCEPT !.dedupeResult = "SCAN_ALREADY_RUNNING"]
    ELSE [s EXCEPT !.dedupeKeys = map, !.installed = map,
                   !.dedupeResult = "ok"]

(***************************************************************************)
(* estimate(requestIDs): one pass of its loop per target, each after an    *)
(* `await sdk.requests.get(requestID)`.                                    *)
(***************************************************************************)
createDedupeKeysSnapshot(s) == [c \in CheckIds |-> s.dedupeKeys[c]]

\* isCheckApplicable of estimate given the index itself, not the snapshot
useSnapshotAndIndex(s, keys) ==
    [s EXCEPT !.estimating.snapshot = keys, !.dedupeKeys = keys]

\* isCheckApplicable(check, context, snapshotDedupeKeys) adds to the snapshot
useSnapshot(s, keys) == [s EXCEPT !.estimating.snapshot = keys]

\* batches.map((batch) => batch.filter(isCheckApplicable)): the number of
\* checks kept and the dedupe keys after it
RECURSIVE filterBatches(_, _, _, _)
filterBatches(bs, r, cfg, keys) ==
    IF bs = <<>> THEN [length |-> 0, keys |-> keys]
    ELSE LET f == filterBatch(Head(bs), r, cfg, keys)
             rest == filterBatches(Tail(bs), r, cfg, f.keys)
         IN  [length |-> Len(f.tasks) + rest.length, keys |-> rest.keys]

estimateReturn(s, result) ==
    [s EXCEPT !.estimating = NoEstimate,
              !.estimates = @ \cup {[index |-> s.estimating.index,
                                       result |-> result]}]

\* the loop of estimate, at the target of position pos
estimateLoop(s, pos) ==
    IF pos > Len(s.requestIDs)
    THEN estimateReturn(s, [kind |-> "Success",
                            checksTotal |-> s.estimating.checksTotal])
    ELSE [s EXCEPT !.estimating.st = "get", !.estimating.pos = pos]

estimate(s) ==
    estimateLoop([s EXCEPT !.estimating =
                      [NoEstimate EXCEPT
                          !.snapshot = createDedupeKeysSnapshot(s),
                          !.index = s.dedupeKeys]], 1)

\* estimate after `await sdk.requests.get(requestID)`
estimateTarget(s) ==
    LET r == s.requestIDs[s.estimating.pos]
    IN  IF r \notin Requests
        THEN estimateReturn(s, [kind |-> "Error", checksTotal |-> 0])
        ELSE LET f == filterBatches(batches, r, s.config,
                                    s.estimating.snapshot)
                 s1 == useSnapshot(s, f.keys)
             IN  estimateLoop([s1 EXCEPT !.estimating.checksTotal =
                                             @ + f.length],
                              s.estimating.pos + 1)

\* the timer of withTaskTimeout(checkTimeout * 1000) of the task of check c
\* wins the race: handleError rethrows the PromisePoolError, onTaskFinished
\* runs, process() of the check pool rejects, processBatch and processTarget
\* throw
checkTimedOut(s, i, c) ==
    LET s1 == onTaskFinished([s EXCEPT !.targets[i].cs[c].timedOut = TRUE,
                                       !.targets[i].rejected = TRUE], i, c)
    IN  IF s.targets[i].rejected THEN s1
        ELSE targetSettled(s1, i, PromisePoolError)

(***************************************************************************)
(* Actions.  `th` are the checks whose step throws, should it run in the   *)
(* action.                                                                 *)
(***************************************************************************)
Run == Becomes(run(State({})))

\* sdk.requests.get(requestID) of processTarget returns
TargetResolved(i, th) ==
    /\ targets[i].st = "get"
    /\ Becomes(processTarget(State(th), i))

\* task.tick() of a step that awaited the host returns or throws
TickEnd(i, c, th) ==
    /\ targets[i].cs[c].st = "tick"
    /\ htmlPending(htmlCalls, i, c) = {}
    /\ Becomes(runCheckPool(tickUntilDone(endTick(State(th), i, c), i, c), i))

Cancel(reason) == Becomes(cancel(State({}), reason))

\* the request queue rejects the queued send of check c for item i, after
\* interruptReason was set
SendInterrupted(i, c, code) ==
    /\ interruptReason # None
    /\ targets[i].cs[c].st = "tick"
    /\ \E q \in requestQueue : q.item = i /\ q.check = c
    /\ Becomes(runCheckPool(sendInterrupted(State({}), i, c, code), i))

\* the step of check c that awaits the host calls
\* runtime.html.parse(target request id), once
HtmlParse(i, c) ==
    /\ targets[i].cs[c].st = "tick"
    /\ \A n \in 1..Len(htmlCalls) :
           ~(htmlCalls[n].item = i /\ htmlCalls[n].check = c)
    /\ Becomes(htmlParse(State({}), i, c, requestIDs[i]))

\* sdk.requests.get(requestID) of html.parse call n returns
HtmlGetResolved(n) ==
    /\ htmlCalls[n].st = "get"
    /\ Becomes(htmlParsed(State({}), n))

\* sdk.requests.get(requestID) of processTarget returns; Math.random gives
\* id to the send of the check that starts
TargetResolvedSend(i, id) ==
    /\ targets[i].st = "get"
    /\ Becomes(processTarget([State({}) EXCEPT !.random = id], i))

\* a check has been awaiting the host for checkTimeout seconds
CheckTimeout(i, c) ==
    /\ targets[i].cs[c].st = "tick"
    /\ ~targets[i].cs[c].timedOut
    /\ Becomes(checkTimedOut(State({}), i, c))

ScanTimeout ==
    /\ timer = "armed"
    /\ Becomes(scanTimeoutFired(State({})))

ExternalMaps ==
    {[c \in CheckIds |-> IF c = "A" THEN ks ELSE {}] : ks \in {{}, {"k1"}}}

ExternalDedupeKeys(map) == Becomes(externalDedupeKeys(State({}), map))

\* estimate(requestIDs) is called, for the targets of the scan
Estimate ==
    /\ estimating.st = "idle"
    /\ Becomes(estimate(State({})))

\* sdk.requests.get(requestID) of estimate returns
EstimateResolved ==
    /\ estimating.st = "get"
    /\ Becomes(estimateTarget(State({})))

\* createRunnable({sdk, checks, config}) of a registry
CreateRunnable ==
    /\ plan = NoPlan
    /\ plan' = getCheckBatches(registry.ids, registry.deps)
    /\ UNCHANGED <<requestIDs, config, hasRun, interruptReason, dedupeKeys,
                   findings, dependencies, executionHistory,
                   activeCheckRecords, events, targetPool, targets,
                   scanResult, runResult, rerunResult, timer, cancelPromise,
                   created, gets, outputs, interruptedAt, registry,
                   dedupeResult, installed, estimating, estimates,
                   requestEvents, requestQueue, htmlCache, htmlCalls>>

(***************************************************************************)
(* Spec: the scans in which no check runs for longer than checkTimeout.    *)
(***************************************************************************)
Next ==
    \/ Run
    \/ \E i \in 1..Len(requestIDs), th \in SUBSET Throwers :
           TargetResolved(i, th)
    \/ \E i \in 1..Len(requestIDs), c \in CheckIds, th \in SUBSET Throwers :
           TickEnd(i, c, th)
    \/ \E reason \in InterruptReasons : Cancel(reason)
    \/ ScanTimeout

Spec == Init /\ [][Next]_vars

(***************************************************************************)
(* SpecCheckTimeout: the scans in which a check may run for longer than    *)
(* checkTimeout, without cancellation and without scan timeout.            *)
(***************************************************************************)
InitCheckTimeout == Init /\ config.scanTimeout = 0

NextCheckTimeout ==
    \/ Run
    \/ \E i \in 1..Len(requestIDs), th \in SUBSET Throwers :
           TargetResolved(i, th)
    \/ \E i \in 1..Len(requestIDs), c \in CheckIds, th \in SUBSET Throwers :
           TickEnd(i, c, th)
    \/ \E i \in 1..Len(requestIDs), c \in CheckIds : CheckTimeout(i, c)

SpecCheckTimeout == InitCheckTimeout /\ [][NextCheckTimeout]_vars

(***************************************************************************)
(* SpecEstimate: externalDedupeKeys and estimate, before, during and after *)
(* a scan without cancellation and without timeouts, of checks whose steps *)
(* do not throw, run one at a time.                                        *)
(***************************************************************************)
InitEstimate == InitCheckTimeout /\ config.concurrentChecks = 1

NextEstimate ==
    \/ Run
    \/ \E i \in 1..Len(requestIDs) : TargetResolved(i, {})
    \/ \E i \in 1..Len(requestIDs), c \in CheckIds : TickEnd(i, c, {})
    \/ \E map \in ExternalMaps : ExternalDedupeKeys(map)
    \/ Estimate
    \/ EstimateResolved

SpecEstimate == InitEstimate /\ [][NextEstimate]_vars

(***************************************************************************)
(* SpecEstimateCancel: the scans of SpecEstimate with cancel().            *)
(***************************************************************************)
NextEstimateCancel ==
    \/ NextEstimate
    \/ \E reason \in InterruptReasons : Cancel(reason)

SpecEstimateCancel == InitEstimate /\ [][NextEstimateCancel]_vars

(***************************************************************************)
(* SpecRequests: the scans without cancellation and timeouts, of checks    *)
(* whose steps do not throw, with the requests that the first step of C    *)
(* sends through the wrapped sdk.                                          *)
(***************************************************************************)
InitRequests == InitCheckTimeout /\ config.severities # {}

NextRequests ==
    \/ Run
    \/ \E i \in 1..Len(requestIDs), id \in PendingRequestIDs :
           TargetResolvedSend(i, id)
    \/ \E i \in 1..Len(requestIDs), c \in CheckIds : TickEnd(i, c, {})

SpecRequests == InitRequests /\ [][NextRequests]_vars

(***************************************************************************)
(* SpecInterruptedSend: the scans of SpecRequests with cancel(), in which  *)
(* the request queue rejects the sends that wait in it when the scan is    *)
(* interrupted.                                                            *)
(***************************************************************************)
NextInterruptedSend ==
    \/ Run
    \/ \E i \in 1..Len(requestIDs), id \in PendingRequestIDs :
           TargetResolvedSend(i, id)
    \/ \E i \in 1..Len(requestIDs), c \in CheckIds : TickEnd(i, c, {})
    \/ \E reason \in InterruptReasons : Cancel(reason)
    \/ \E i \in 1..Len(requestIDs), c \in CheckIds,
           code \in InterruptedCodes : SendInterrupted(i, c, code)

SpecInterruptedSend == InitRequests /\ [][NextInterruptedSend]_vars

(***************************************************************************)
(* SpecHtml: the scans of SpecRequests in which the first step of C calls  *)
(* runtime.html.parse for its target while it awaits the host.             *)
(***************************************************************************)
NextHtml ==
    \/ Run
    \/ \E i \in 1..Len(requestIDs) : TargetResolved(i, {})
    \/ \E i \in 1..Len(requestIDs), c \in CheckIds : TickEnd(i, c, {})
    \/ \E i \in 1..Len(requestIDs), c \in CheckIds : HtmlParse(i, c)
    \/ \E n \in 1..Len(htmlCalls) : HtmlGetResolved(n)

SpecHtml == InitRequests /\ [][NextHtml]_vars

(***************************************************************************)
(* SpecAwaits: the scans without cancellation and timeouts of a registry   *)
(* in which both steps of C await the host.                                *)
(***************************************************************************)
InitAwaits ==
    /\ requestIDs \in RequestLists
    /\ config \in {cfg \in Configs : cfg.scanTimeout = 0
                                      /\ cfg.severities # {}}
    /\ registry = [ids |-> checks, deps |-> [c \in CheckIds |-> dependsOn(c)],
                   awaits |-> {ck \in Steps : isAsyncTwice(ck[1], ck[2])}]
    /\ plan = getCheckBatches(registry.ids, registry.deps)
    /\ Created

NextAwaits ==
    \/ Run
    \/ \E i \in 1..Len(requestIDs), th \in SUBSET Throwers :
           TargetResolved(i, th)
    \/ \E i \in 1..Len(requestIDs), c \in CheckIds, th \in SUBSET Throwers :
           TickEnd(i, c, th)

SpecAwaits == InitAwaits /\ [][NextAwaits]_vars

(***************************************************************************)
(* SpecPlan: createRunnable of the registries of Registries.               *)
(***************************************************************************)
InitPlan ==
    /\ requestIDs = <<>>
    /\ config \in {cfg \in Configs : cfg.concurrentTargets = 1
                                      /\ cfg.concurrentChecks = 1
                                      /\ cfg.scanTimeout = 0}
    /\ registry \in Registries
    /\ plan = NoPlan
    /\ Created

NextPlan == CreateRunnable

SpecPlan == InitPlan /\ [][NextPlan]_vars


(***************************************************************************)
(* Vocabulary of the properties.                                           *)
(***************************************************************************)
Count(q, x) == Cardinality({n \in 1..Len(q) : q[n] = x})

eventIndex(name) == {n \in 1..Len(events) : events[n][1] = name}

\* no continuation of the scan is pending: runScan returned, every
\* processTarget settled and the timeout timer is not armed
Quiescent ==
    /\ scanResult # NoResult
    /\ \A i \in 1..Len(requestIDs) :
           /\ targets[i].st \in {"notrun", "done"}
           /\ \A c \in CheckIds : targets[i].cs[c].st # "tick"
    /\ timer # "armed"

RECURSIVE stepFindings(_)
stepFindings(steps) ==
    IF steps = <<>> THEN <<>>
    ELSE Head(steps).findings \o stepFindings(Tail(steps))

\* the findings of the steps of the records of the history, of the given statuses
RECURSIVE historyFindings(_, _)
historyFindings(history, statuses) ==
    IF history = <<>> THEN <<>>
    ELSE (IF Head(history).status \in statuses
          THEN stepFindings(Head(history).steps) ELSE <<>>)
         \o historyFindings(Tail(history), statuses)

\* an effective cancel() was called before runScan emitted scan:finished
cancelledDuringRun ==
    /\ cancelPromise # None
    /\ \A n \in eventIndex("scan:finished") : n > interruptedAt

(***************************************************************************)
(* C1.  For every check that defines dedupeKey and every key k, at most    *)
(* one task of that check is created (check.create) in a scan for targets  *)
(* whose dedupeKey is k.                                                   *)
(***************************************************************************)
C1_OneExecutionPerDedupeKey ==
    \A c \in CheckIds : hasDedupeKey(c) =>
        \A k \in Keys :
            Cardinality({n \in 1..Len(created) :
                /\ created[n][1] = c
                /\ dedupeKey(c, requestIDs[created[n][2]]) = k}) <= 1

\* two targets with different request IDs and the same key went through the
\* filter of the batch of A, and A was created for one of them
C1_Witness ==
    \E i, j \in 1..Len(requestIDs) :
        /\ requestIDs[i] # requestIDs[j]
        /\ dedupeKey("A", requestIDs[i]) = dedupeKey("A", requestIDs[j])
        /\ targets[i].st = "done" /\ targets[j].st = "done"
        /\ \E n \in 1..Len(created) : created[n][1] = "A"

(***************************************************************************)
(* C2.  The execution history holds at most one record per (checkId,       *)
(* targetRequestId), for any requestIDs list.                              *)
(***************************************************************************)
C2_OneRecordPerCheckAndTarget ==
    \A c \in CheckIds, r \in Requests :
        Cardinality({n \in 1..Len(executionHistory) :
            /\ executionHistory[n].checkId = c
            /\ executionHistory[n].targetRequestId = r}) <= 1

(***************************************************************************)
(* C3.  A record of a check C for a target T in the history is preceded by *)
(* a completed record for T of every check that C depends on.              *)
(***************************************************************************)
C3_DependencyCompletedBefore ==
    \A n \in 1..Len(executionHistory) :
        \A d \in dependsOn(executionHistory[n].checkId) :
            \E m \in 1..(n - 1) :
                /\ executionHistory[m].checkId = d
                /\ executionHistory[m].targetRequestId =
                       executionHistory[n].targetRequestId
                /\ executionHistory[m].status = "completed"

(***************************************************************************)
(* C4.  No scan:check-started event is emitted after interruptReason has   *)
(* been set.                                                               *)
(***************************************************************************)
C4_NoCheckStartedAfterInterrupt ==
    interruptedAt >= 0 =>
        \A n \in eventIndex("scan:check-started") : n <= interruptedAt

(***************************************************************************)
(* C5.  When an effective cancel(reason) arrived while the scan was        *)
(* running, run() resolves to Interrupted with that reason, after          *)
(* scan:interrupted with that reason and then scan:finished were emitted.  *)
(***************************************************************************)
C5_CancelledRunIsInterrupted ==
    (cancelledDuringRun /\ runResult # NoResult) =>
        /\ runResult.kind = "Interrupted"
        /\ runResult.reason = interruptReason
        /\ \E n \in eventIndex("scan:interrupted") :
               /\ events[n][2] = interruptReason
               /\ \E m \in eventIndex("scan:finished") : n < m

(***************************************************************************)
(* C6.  The promise of an effective cancel() resolves: it is not still     *)
(* waiting for scan:interrupted once nothing of the scan is pending.       *)
(***************************************************************************)
C6_CancelResolves == Quiescent => cancelPromise # "waiting"

(***************************************************************************)
(* C7.  At the end of a scan every scan:finding event corresponds to       *)
(* exactly one finding of the steps of the history records and to exactly  *)
(* one finding of the result of run().                                     *)
(***************************************************************************)
C7_FindingEventsInHistoryAndResult ==
    (Quiescent /\ runResult.kind \in {"Finished", "Interrupted"}) =>
        \A n \in eventIndex("scan:finding") :
            /\ Count(historyFindings(executionHistory,
                                     {"completed", "failed"}), events[n][2]) = 1
            /\ Count(runResult.findings, events[n][2]) = 1

(***************************************************************************)
(* C8.  When run() returned Finished or Interrupted, the number of         *)
(* findings of the result is the number of findings of the steps of the    *)
(* completed records of the history.                                       *)
(***************************************************************************)
C8_ResultIsSumOfCompleted ==
    (Quiescent /\ runResult.kind \in {"Finished", "Interrupted"}) =>
        Len(runResult.findings) =
            Len(historyFindings(executionHistory, {"completed"}))

(***************************************************************************)
(* C9.  dependencies.get(D) returns an output that an execution of D       *)
(* completed with earlier in the scan, and undefined when no execution of  *)
(* D has completed.                                                        *)
(***************************************************************************)
C9_DependencyOutput ==
    \A n \in 1..Len(gets) :
        IF gets[n].completed = {} THEN gets[n].value = undefined
        ELSE gets[n].value \in gets[n].completed

\* a check read the output of its dependency, and another read undefined
C9_Witness ==
    /\ \E n \in 1..Len(gets) : gets[n].value = getOutput("A", "r1")
    /\ \E n \in 1..Len(gets) : gets[n].value = undefined

(***************************************************************************)
(* C10.  A run() invoked after a first run() returns Error and changes     *)
(* nothing: no event, no check, no change of findings, dedupe index or     *)
(* history.                                                                *)
(***************************************************************************)
C10_RunIsSingleShot ==
    [][(hasRun /\ Run) =>
          /\ rerunResult'.kind = "Error"
          /\ UNCHANGED <<events, findings, dedupeKeys, executionHistory,
                         dependencies, activeCheckRecords, created, targets,
                         targetPool, interruptReason, scanResult,
                         runResult, timer, cancelPromise, hasRun>>]_vars

\* run() was invoked again while checks of the first run were in flight
C10_Witness ==
    /\ rerunResult.kind = "Error"
    /\ \E i \in 1..Len(requestIDs) : targets[i].st = "batch"

(***************************************************************************)
(* C11.  externalDedupeKeys called after run() fails with                  *)
(* SCAN_ALREADY_RUNNING and leaves the dedupe index unchanged; the map     *)
(* installed before run() is part of the index of the run, and no check is *)
(* created for a target whose key is in the map for that check.            *)
(***************************************************************************)
C11_ExternalDedupeKeysOnlyBeforeRun ==
    /\ [][(\E map \in ExternalMaps : ExternalDedupeKeys(map)) =>
              IF hasRun
              THEN /\ dedupeResult' = "SCAN_ALREADY_RUNNING"
                   /\ dedupeKeys' = dedupeKeys
              ELSE /\ dedupeResult' = "ok"
                   /\ dedupeKeys' \in ExternalMaps]_vars
    /\ [](\A c \in CheckIds : installed[c] \subseteq dedupeKeys[c])
    /\ [](\A n \in 1..Len(created) :
            hasDedupeKey(created[n][1]) =>
                dedupeKey(created[n][1], requestIDs[created[n][2]])
                    \notin installed[created[n][1]])

\* a map with (A, k1) was installed, the scan processed a target of key k1,
\* and a later externalDedupeKeys was refused
C11_Witness ==
    /\ dedupeResult = "SCAN_ALREADY_RUNNING"
    /\ installed["A"] = {"k1"}
    /\ \E i \in 1..Len(requestIDs) :
           /\ requestIDs[i] \in Requests
           /\ dedupeKey("A", requestIDs[i]) = "k1"
           /\ targets[i].st = "done"

(***************************************************************************)
(* C12.  No step of estimate changes the dedupe index or anything else of  *)
(* the scan, and two estimate calls made with the same index return the    *)
(* same result.                                                            *)
(***************************************************************************)
C12_EstimateLeavesIndexUnchanged ==
    /\ [][(Estimate \/ EstimateResolved) =>
              UNCHANGED <<dedupeKeys, installed, hasRun, interruptReason,
                          findings, dependencies, executionHistory,
                          activeCheckRecords, events, targetPool, targets,
                          scanResult, runResult, created>>]_vars
    /\ [](\A e1, e2 \in estimates :
              e1.index = e2.index => e1.result = e2.result)

\* an estimate made with the empty index counted checks, A among them,
\* and the run that followed created A
C12_Witness ==
    /\ \E e \in estimates :
           /\ e.result.kind = "Success"
           /\ e.result.checksTotal >= 2
           /\ e.index["A"] = {}
    /\ \E n \in 1..Len(created) : created[n][1] = "A"

(***************************************************************************)
(* C13.  interruptReason is unset as long as run() has not been called,    *)
(* whatever cancel() calls were made, and once set it never changes.       *)
(***************************************************************************)
C13_CancelIsIdempotent ==
    /\ [](~hasRun => interruptReason = None /\ cancelPromise = None)
    /\ [][interruptReason # None => interruptReason' = interruptReason]_vars

\* the scan timeout fired after a cancel("Cancelled")
C13_Witness ==
    /\ interruptReason = "Cancelled"
    /\ timer = "fired"

(***************************************************************************)
(* C14.  scan:started is emitted once and before every check event, and    *)
(* scan:finished is emitted at most once and after every check event.      *)
(***************************************************************************)
checkEvents ==
    {n \in 1..Len(events) :
        events[n][1] \in {"scan:check-started", "scan:finding",
                          "scan:check-finished", "scan:check-failed"}}

C14_StartedFirstFinishedLast ==
    /\ Cardinality(eventIndex("scan:started")) = (IF hasRun THEN 1 ELSE 0)
    /\ Cardinality(eventIndex("scan:finished")) <= 1
    /\ \A n \in checkEvents :
           /\ \E m \in eventIndex("scan:started") : m < n
           /\ \A m \in eventIndex("scan:finished") : n < m

(***************************************************************************)
(* C15.  Every scan:finding event of a check C on a target T is emitted    *)
(* while an execution of C on T is open: more scan:check-started than      *)
(* scan:check-finished events for (C, T) precede it.                       *)
(***************************************************************************)
eventsBefore(n, name, c, r) ==
    Cardinality({m \in 1..(n - 1) :
        events[m][1] = name /\ events[m][2] = c /\ events[m][3] = r})

C15_FindingsBetweenStartedAndFinished ==
    \A n \in eventIndex("scan:finding") :
        eventsBefore(n, "scan:check-started", events[n][2][2], events[n][2][3])
            > eventsBefore(n, "scan:check-finished", events[n][2][2],
                           events[n][2][3])

(***************************************************************************)
(* C16.  Every scan:check-started event for (C, T) is eventually followed  *)
(* by its scan:check-finished event, and there are never more              *)
(* scan:check-finished than scan:check-started events for (C, T).  The     *)
(* host is taken to answer: no sdk.requests.get and no task.tick() stays   *)
(* pending for ever (TargetResolved and TickEnd are the steps enabled by a *)
(* pending operation, and weak fairness of them is this hypothesis).       *)
(***************************************************************************)
\* an awaited sdk.requests.get or task.tick() has not returned
hostPending ==
    \E i \in 1..Len(requestIDs) :
        \/ targets[i].st = "get"
        \/ \E c \in CheckIds : targets[i].cs[c].st = "tick"

started(c, r) == Count(events, <<"scan:check-started", c, r>>)

finished(c, r) == Count(events, <<"scan:check-finished", c, r>>)

C16_StartedIsFinishedOnce ==
    /\ [](\A c \in CheckIds, r \in Requests : finished(c, r) <= started(c, r))
    /\ \/ <>[]hostPending
       \/ <>[](\A c \in CheckIds, r \in Requests :
                  finished(c, r) = started(c, r))

\* a check failed and a check was interrupted (it was started and has no
\* history record), and each has its scan:check-finished
C16_Witness ==
    /\ \A c \in CheckIds, r \in Requests : finished(c, r) = started(c, r)
    /\ \E n \in 1..Len(executionHistory) : executionHistory[n].status = "failed"
    /\ \E c \in CheckIds, r \in Requests :
           /\ started(c, r) > 0
           /\ interruptReason # None
           /\ \A n \in 1..Len(executionHistory) :
                  ~(executionHistory[n].checkId = c
                    /\ executionHistory[n].targetRequestId = r)

(***************************************************************************)
(* C17.  When planning succeeds, every registered check is in exactly one  *)
(* batch, and every check that a check depends on is in an earlier batch.  *)
(***************************************************************************)
batchesOf(v) == {b \in 1..Len(plan.batches) : v \in Range(plan.batches[b])}

C17_TopologicalLayering ==
    plan.kind = "Batches" =>
        \A v \in Range(registry.ids) :
            /\ Cardinality(batchesOf(v)) = 1
            /\ \A d \in registry.deps[v] :
                   \A bv \in batchesOf(v) :
                       \E bd \in batchesOf(d) : bd < bv

\* a chain of three checks was planned in three batches
C17_Witness ==
    /\ plan.kind = "Batches"
    /\ Len(plan.batches) = 3
    /\ registry.deps["B"] = {"A"}
    /\ registry.deps["C"] = {"B"}

(***************************************************************************)
(* C18.  Planning fails when a dependsOn names an id that is not           *)
(* registered and when the dependsOn graph has a cycle, and a plan has no  *)
(* node for an id that is not registered.                                  *)
(***************************************************************************)
hasUnknownDependency ==
    \E v \in Range(registry.ids) : ~(registry.deps[v] \subseteq Range(registry.ids))

\* the checks that v depends on through at most n edges
RECURSIVE dependsOnWithin(_, _)
dependsOnWithin(v, n) ==
    IF n = 0 THEN {}
    ELSE LET ds == registry.deps[v] \cap Range(registry.ids)
         IN  ds \cup UNION {dependsOnWithin(d, n - 1) : d \in ds}

hasCycle ==
    \E v \in Range(registry.ids) : v \in dependsOnWithin(v, Len(registry.ids))

noStubNode ==
    /\ DOMAIN plan.dag \subseteq Range(registry.ids)
    /\ \A b \in 1..Len(plan.batches) :
           Range(plan.batches[b]) \subseteq Range(registry.ids)

failedRecords(c, r) ==
    {n \in 1..Len(executionHistory) :
        /\ executionHistory[n].checkId = c
        /\ executionHistory[n].targetRequestId = r
        /\ executionHistory[n].status = "failed"}

failedEvents(c, r) ==
    {n \in 1..Len(events) :
        /\ events[n][1] = "scan:check-failed"
        /\ events[n][2] = c /\ events[n][3] = r}

C19_StepErrorIsContained ==
    /\ \A c \in CheckIds, r \in Requests :
           /\ Cardinality(failedRecords(c, r)) = Cardinality(failedEvents(c, r))
           /\ \A n \in failedRecords(c, r) :
                  executionHistory[n].error =
                      (IF StepError(c).isScanRunnableError
                       THEN StepError(c).code ELSE "UNKNOWN_CHECK_ERROR")
    /\ (/\ Quiescent
        /\ interruptReason = None
        /\ Range(requestIDs) \subseteq Requests) =>
           /\ runResult.kind = "Finished"
           /\ \A i \in 1..Len(requestIDs) :
                  targets[i].st = "done" /\ targets[i].batch = Len(batches)

(***************************************************************************)
(* C20.  A check whose execution exceeded checkTimeout has a failed        *)
(* history record and a scan:check-failed event with the code              *)
(* CHECK_TIMEOUT, and the scan does not end with an error for it.          *)
(***************************************************************************)
C20_CheckTimeoutFailsTheCheck ==
    \A i \in 1..Len(requestIDs), c \in CheckIds :
        targets[i].cs[c].timedOut =>
            /\ \E n \in failedEvents(c, requestIDs[i]) :
                   events[n][4] = "CHECK_TIMEOUT"
            /\ \E n \in failedRecords(c, requestIDs[i]) :
                   executionHistory[n].error = "CHECK_TIMEOUT"
            /\ scanResult.kind # "Error"

C22_EmptyRunAndEmptySeverities ==
    /\ (requestIDs = <<>> /\ hasRun) =>
           /\ runResult = [kind |-> "Finished", findings |-> <<>>]
           /\ events = <<<<"scan:started">>, <<"scan:finished">>>>
    /\ config.severities = {} =>
           /\ created = <<>>
           /\ \A c \in CheckIds : dedupeKeys[c] = {}
           /\ checkEvents = {}
           /\ (/\ scanResult # NoResult
               /\ interruptReason = None
               /\ Range(requestIDs) \subseteq Requests) =>
                  /\ scanResult = [kind |-> "Finished", findings |-> <<>>]
                  /\ runResult = scanResult

\* a scan of two targets with severities = [] has finished
C22_Witness ==
    /\ config.severities = {}
    /\ Len(requestIDs) = 2
    /\ \A i \in 1..2 : targets[i].st = "done"
    /\ runResult = [kind |-> "Finished", findings |-> <<>>]

(***************************************************************************)
(* C23.  When processTarget fails with REQUEST_NOT_FOUND, an error that is *)
(* no interruption, runScan returns Error with the message of the error,   *)
(* scan:finished is emitted exactly once and scan:interrupted never; run() *)
(* returns that Error unless the scan timeout had resolved it before.      *)
(***************************************************************************)
C23_ErrorEndsTheScan ==
    (\E i \in 1..Len(requestIDs) :
         targets[i].st = "done" /\ requestIDs[i] \in UnknownRequests) =>
        /\ scanResult = [kind |-> "Error", error |-> "REQUEST_NOT_FOUND"]
        /\ Cardinality(eventIndex("scan:finished")) = 1
        /\ eventIndex("scan:interrupted") = {}
        /\ \/ runResult = scanResult
           \/ timer = "fired" /\ runResult.kind = "Interrupted"

\* sdk.requests.get returned undefined for one target while a check of
\* another target was awaiting the host
C23_Witness ==
    /\ runResult = [kind |-> "Error", error |-> "REQUEST_NOT_FOUND"]
    /\ \E i \in 1..Len(requestIDs) :
           /\ targets[i].st = "batch"
           /\ targets[i].cs["C"].st = "tick"

(***************************************************************************)
(* C24.  For a check whose `when` is false of a target, no task is         *)
(* created, no scan:check-started is emitted and no record is kept or      *)
(* written for (check, target); and a key is in the dedupe index of a      *)
(* check only if a task of the check was created for a target with that    *)
(* key, so that such a target adds none.                                   *)
(***************************************************************************)
C24_WhenFalseLeavesNoTrace ==
    /\ \A c \in CheckIds, r \in Requests :
           (hasWhen(c) /\ ~when(c, r)) =>
               /\ \A n \in 1..Len(created) :
                      ~(created[n][1] = c /\ requestIDs[created[n][2]] = r)
               /\ started(c, r) = 0
               /\ ~activeCheckRecords[<<c, r>>].active
               /\ \A n \in 1..Len(executionHistory) :
                      ~(/\ executionHistory[n].checkId = c
                        /\ executionHistory[n].targetRequestId = r)
    /\ \A c \in CheckIds : \A k \in dedupeKeys[c] :
           \E n \in 1..Len(created) :
               /\ created[n][1] = c
               /\ dedupeKey(c, requestIDs[created[n][2]]) = k

\* B, whose `when` is false of r2, ran for r1 after r2 was processed: r2
\* had not taken the key that r1 shares with it
C24_Witness ==
    /\ requestIDs = <<"r2", "r1">>
    /\ \A i \in 1..2 : targets[i].st = "done"
    /\ \E n \in 1..Len(created) : created[n] = <<"B", 2>>
    /\ \A n \in 1..Len(created) : created[n] # <<"B", 1>>
    /\ \E n \in 1..Len(created) : created[n] = <<"C", 1>>
    /\ dedupeKeys["B"] = {"k1"}

(***************************************************************************)
(* C25.  Every enqueue call of the wrapped send is directly preceded by    *)
(* the scan:request-pending event with its pendingRequestID, checkID and   *)
(* targetRequestID, and there is no other scan:request-pending event; the  *)
(* pendingRequestIDs of the events differ from each other; and every       *)
(* scan:request-completed event comes after the scan:request-pending event *)
(* with its id.                                                            *)
(***************************************************************************)
requestEventIndex(name) ==
    {n \in 1..Len(requestEvents) : requestEvents[n][1] = name}

C25_OnePendingEventPerSend ==
    /\ \A n \in requestEventIndex("enqueue") :
           /\ n > 1
           /\ requestEvents[n - 1] =
                  <<"scan:request-pending", requestEvents[n][2],
                    requestEvents[n][3], requestEvents[n][4]>>
    /\ \A n \in requestEventIndex("scan:request-pending") :
           /\ n < Len(requestEvents)
           /\ requestEvents[n + 1][1] = "enqueue"
           /\ \E m \in 1..Len(created) :
                  /\ created[m][1] = requestEvents[n][3]
                  /\ requestIDs[created[m][2]] = requestEvents[n][4]
    /\ \A n, m \in requestEventIndex("scan:request-pending") :
           n # m => requestEvents[n][2] # requestEvents[m][2]
    /\ \A n \in requestEventIndex("scan:request-completed") :
           \E m \in requestEventIndex("scan:request-pending") :
               m < n /\ requestEvents[m][2] = requestEvents[n][2]

(***************************************************************************)
(* C26.  A check whose metadata sets skipIfFoundBy is skipped for a target *)
(* if and only if findings exist, when its task is started, under the      *)
(* check id that skipIfFoundBy refers to.                                  *)
(***************************************************************************)
C26_SkippedIffReferencedFound ==
    \A i \in 1..Len(requestIDs), c \in CheckIds :
        targets[i].cs[c].skipped # None =>
            (targets[i].cs[c].skipped = "yes" <=> targets[i].cs[c].refFound)

(***************************************************************************)
(* C27.  For every requestID the body is parsed and stored in the HTML     *)
(* cache at most once, and all html.parse calls for it that returned got   *)
(* the same ParsedHtml object.                                             *)
(***************************************************************************)
C27_HtmlParsedOnce ==
    \A r \in Requests :
        /\ Cardinality({n \in 1..Len(htmlCalls) :
               htmlCalls[n].requestID = r /\ htmlCalls[n].parsed}) <= 1
        /\ \A n, m \in 1..Len(htmlCalls) :
               (/\ htmlCalls[n].requestID = r
                /\ htmlCalls[m].requestID = r
                /\ htmlCalls[n].st = "returned"
                /\ htmlCalls[m].st = "returned") =>
                   htmlCalls[n].parsedHtml = htmlCalls[m].parsedHtml

(***************************************************************************)
(* C28.  At most concurrentTargets targets are being processed             *)
(* (processTarget has started and not settled), and for each target at     *)
(* most concurrentChecks checks are executing, all of its current batch.   *)
(***************************************************************************)
executing(i) == {c \in CheckIds : targets[i].cs[c].st = "tick"}

occursOnce(r) ==
    Cardinality({i \in 1..Len(requestIDs) : requestIDs[i] = r}) = 1

C29_BatchesInPlanOrder ==
    \A n \in eventIndex("scan:check-started") :
        occursOnce(events[n][3]) =>
            \A b1, b2 \in 1..Len(batches) :
                (b1 < b2 /\ events[n][2] \in Range(batches[b2])) =>
                    \A c1 \in Range(batches[b1]) :
                        eventsBefore(n, "scan:check-started", c1, events[n][3])
                            = eventsBefore(n, "scan:check-finished", c1,
                                           events[n][3])

\* B, of the second batch, was started for r1 after C and A of the first
\* batch had finished, and a check event of the other target lies between
\* the start and the end of C for r1
C29_Witness ==
    /\ Len(requestIDs) = 2
    /\ requestIDs[1] = "r1"
    /\ requestIDs[2] # "r1"
    /\ started("B", "r1") = 1
    /\ finished("C", "r1") = 1
    /\ finished("A", "r1") = 1
    /\ \E n1, n2, n3 \in 1..Len(events) :
           /\ n1 < n2 /\ n2 < n3
           /\ events[n1] = <<"scan:check-started", "C", "r1">>
           /\ events[n2][1] = "scan:check-started"
           /\ events[n2][3] = requestIDs[2]
           /\ events[n3] = <<"scan:check-finished", "C", "r1">>

(***************************************************************************)
(* C30.  Once interruptReason is set, task.tick() is called for no further *)
(* step of any task: a tick that begins then raises the interruption, no   *)
(* finding is gathered or emitted and no StepExecutionRecord is appended   *)
(* for it, and the steps recorded before stay as they are.  Only a step    *)
(* whose task.tick() was called before can still end and be recorded.      *)
(***************************************************************************)
inTick(c, r) ==
    \E i \in 1..Len(requestIDs) :
        requestIDs[i] = r /\ targets[i].cs[c].st = "tick"

C30_NoStepAfterInterrupt ==
    [][interruptReason # None =>
          /\ \A i \in 1..Len(requestIDs), c \in CheckIds :
                 /\ targets'[i].cs[c].step = targets[i].cs[c].step
                 /\ targets[i].cs[c].st # "tick" =>
                        targets'[i].cs[c].all = targets[i].cs[c].all
          /\ \A n \in (Len(events) + 1)..Len(events') :
                 events'[n][1] = "scan:finding" =>
                     inTick(events'[n][2][2], events'[n][2][3])
          /\ \A c \in CheckIds, r \in Requests :
                 LET old == activeCheckRecords[<<c, r>>].steps
                     new == activeCheckRecords'[<<c, r>>].steps
                 IN  Len(new) > Len(old) =>
                         /\ inTick(c, r)
                         /\ Len(new) = Len(old) + 1
                         /\ SubSeq(new, 1, Len(old)) = old]_vars

\* the second tick of C for r1 began after the interruption: its first step
\* is recorded with its finding, the second was not invoked
C30_Witness ==
    /\ interruptReason # None
    /\ \E i \in 1..Len(requestIDs) :
           /\ requestIDs[i] = "r1"
           /\ targets[i].cs["C"].st = "settled"
           /\ targets[i].cs["C"].step = 1
           /\ Len(targets[i].cs["C"].all) = 1
           /\ Len(activeCheckRecords[<<"C", "r1">>].steps) = 1

(***************************************************************************)
(* C31.  In a history record with status completed the last step has       *)
(* result "done" and the steps before it "continue"; in a record with      *)
(* status failed no step has result "done"; and the steps of a record are  *)
(* the ticks of one execution of the check for the target, in tick order:  *)
(* the k-th step of the record is what the k-th tick returned.             *)
(***************************************************************************)
C31_RecordIsOneExecution ==
    \A n \in 1..Len(executionHistory) :
        LET rec == executionHistory[n]
            last == Len(rec.steps)
        IN  /\ rec.status = "completed" =>
                   /\ last >= 1
                   /\ rec.steps[last].result = "done"
                   /\ \A k \in 1..(last - 1) : rec.steps[k].result = "continue"
            /\ rec.status = "failed" =>
                   \A k \in 1..last : rec.steps[k].result # "done"
            /\ \A k \in 1..last :
                   LET res == StepResult(rec.checkId, rec.targetRequestId, k)
                   IN  /\ rec.steps[k].result = res.status
                       /\ Len(rec.steps[k].findings) = res.findings
                       /\ \A f \in 1..Len(rec.steps[k].findings) :
                              /\ rec.steps[k].findings[f][2] = rec.checkId
                              /\ rec.steps[k].findings[f][3] =
                                     rec.targetRequestId

(***************************************************************************)
(* C32.  The value that a check running for a target obtains from          *)
(* dependencies.get(d) is the output that d produced for that same target. *)
(***************************************************************************)
C32_DependencyOutputOfSameTarget ==
    \A n \in 1..Len(gets) :
        gets[n].value # undefined =>
            gets[n].value = getOutput(gets[n].dep, requestIDs[gets[n].item])

(***************************************************************************)
(* C33.  Once the promise of run() has resolved, scan:finished has been    *)
(* emitted, and afterwards no tick begins or ends, no finding is emitted,  *)
(* no record is appended to the history and the findings map does not      *)
(* change.                                                                 *)
(***************************************************************************)
C33_QuiescentWhenRunResolves ==
    /\ [](runResult # NoResult => eventIndex("scan:finished") # {})
    /\ [][runResult # NoResult =>
             /\ targets' = targets
             /\ executionHistory' = executionHistory
             /\ findings' = findings
             /\ \A n \in (Len(events) + 1)..Len(events') :
                    events'[n][1] # "scan:finding"]_vars

(***************************************************************************)
(* C34.  When run() has returned Interrupted with a reason, that reason is *)
(* the value of interruptReason and the reason of every scan:interrupted   *)
(* event of the scan.                                                      *)
(***************************************************************************)
C34_ReasonsAgree ==
    runResult.kind = "Interrupted" =>
        /\ runResult.reason = interruptReason
        /\ \A n \in eventIndex("scan:interrupted") :
               events[n][2] = runResult.reason

(***************************************************************************)
(* C35.  When the interruption reaches a check inside a tick, as the       *)
(* rejection of its queued sdk.requests.send, no history record with       *)
(* status failed is appended and no scan:check-failed event is emitted,    *)
(* and the check pool of the target is stopped.                            *)
(***************************************************************************)
failedInHistory(history) ==
    {n \in 1..Len(history) : history[n].status = "failed"}

C35_InterruptedIsNotFailed ==
    [][\A i \in 1..Len(requestIDs), c \in CheckIds, code \in InterruptedCodes :
           SendInterrupted(i, c, code) =>
               /\ failedInHistory(executionHistory')
                      = failedInHistory(executionHistory)
               /\ \A n \in (Len(events) + 1)..Len(events') :
                      events'[n][1] # "scan:check-failed"
               /\ targets'[i].stopped]_vars

(***************************************************************************)
(* C36.  When the scan has ended and is at rest, the dedupe index holds a  *)
(* key for a check only if scan:check-started was emitted for that check   *)
(* and a target with that key: a check that was filtered into a batch and  *)
(* never started has not consumed its key.                                 *)
(***************************************************************************)
C36_KeyOnlyOfStartedCheck ==
    (Quiescent /\ runResult # NoResult) =>
        \A c \in CheckIds : \A k \in dedupeKeys[c] :
            \E r \in Requests : dedupeKey(c, r) = k /\ started(c, r) > 0

(***************************************************************************)
(* C37.  When the scan has ended Finished, every (checkID,                 *)
(* targetRequestID) for which scan:check-started was emitted has exactly   *)
(* one record in the execution history, and no in-progress record of a     *)
(* check remains in activeCheckRecords.                                    *)
(***************************************************************************)
recordsOf(c, r) ==
    {n \in 1..Len(executionHistory) :
        /\ executionHistory[n].checkId = c
        /\ executionHistory[n].targetRequestId = r}

C37_OneRecordPerStartedCheck ==
    (Quiescent /\ runResult.kind = "Finished") =>
        /\ \A c \in CheckIds, r \in Requests :
               started(c, r) > 0 => Cardinality(recordsOf(c, r)) = 1
        /\ \A c \in CheckIds, r \in Requests :
               ~activeCheckRecords[<<c, r>>].active

(***************************************************************************)
(* C38.  When the run has ended Finished, every estimate that was made     *)
(* with the dedupe index with which the run started, as is every estimate  *)
(* called before run() and after the last externalDedupeKeys, returned     *)
(* Success with checksTotal equal to the number of scan:check-started      *)
(* events of the run.                                                      *)
(***************************************************************************)
C38_EstimateCountsStartedChecks ==
    (Quiescent /\ runResult.kind = "Finished") =>
        \A e \in estimates : e.index = installed =>
            /\ e.result.kind = "Success"
            /\ e.result.checksTotal
                   = Cardinality(eventIndex("scan:check-started"))

(***************************************************************************)
(* C39.  When planning succeeds, the batches are a partition of the        *)
(* registered check ids: every registered id occurs exactly once in the    *)
(* batches, and every id of a batch is registered.                         *)
(***************************************************************************)
occurrences(v) ==
    {bn \in (1..Len(plan.batches)) \X (1..Len(registry.ids)) :
        /\ bn[2] <= Len(plan.batches[bn[1]])
        /\ plan.batches[bn[1]][bn[2]] = v}

C39_BatchesPartitionTheRegistry ==
    plan.kind = "Batches" =>
        /\ \A v \in Range(registry.ids) : Cardinality(occurrences(v)) = 1
        /\ \A b \in 1..Len(plan.batches) :
               /\ Len(plan.batches[b]) <= Len(registry.ids)
               /\ Range(plan.batches[b]) \subseteq Range(registry.ids)

\* three checks, two of them depending on the third, were planned in two
\* batches, the second of two checks
C39_Witness ==
    /\ plan.kind = "Batches"
    /\ Len(registry.ids) = 3
    /\ Len(plan.batches) = 2
    /\ Len(plan.batches[2]) = 2

====
